---------------------------- MODULE Spec2Model ----------------------------
(***************************************************************************)
(* Model of the stream-voice front end: browser-support detection, the     *)
(* speech-recognition adapter (SpeechRecognitionPolyfill), the             *)
(* useVoiceControl hook, the VideoPlayer command dispatcher and the        *)
(* server-side audio streaming service (SpeechRecognitionService).         *)
(*                                                                         *)
(* JavaScript strings are sequences of one-character strings, so that      *)
(* String.prototype.includes and toLowerCase are computed, not assumed.    *)
(***************************************************************************)
EXTENDS Integers, Sequences, FiniteSets, TLC

VARIABLES
  env,                  \* window / navigator / location of the page
  support,              \* value returned by the last detectBrowserSupport()
  mounted,              \* the VideoPlayer component is mounted
  adapters,             \* every SpeechRecognitionPolyfill constructed so far
  recogs,               \* every native SpeechRecognition object constructed
  annyang,              \* window.annyang and the script element that loads it
  hook,                 \* useVoiceControl state: isListening, error, currentMode
  rendered,             \* what the last render's closures captured
  renderPending,        \* a state update is waiting for a re-render
  player,               \* VideoPlayer state and its media element
  stream,               \* one SpeechRecognitionService.streamAudioToText session
  catalog,              \* what the server's movies.json source yields
  carousel,             \* one ContentCarousel component
  exchange,             \* the last request to /api/movies and its answer
  lastOp,               \* the operation that produced the current state
  lastCalls             \* callbacks invoked by that operation, in order

envVars     == <<env, support>>
sessionVars == <<mounted, adapters, recogs, annyang, hook, rendered, renderPending>>
playerVars  == <<player>>
streamVars  == <<stream>>
catalogVars == <<catalog, carousel, exchange>>
auxVars     == <<lastOp, lastCalls>>
vars        == <<env, support, mounted, adapters, recogs, annyang, hook, rendered,
                 renderPending, player, stream, catalog, carousel, exchange,
                 lastOp, lastCalls>>

---------------------------------------------------------------------------
(* Strings *)

UA_Chrome == <<"C", "h", "r", "o", "m", "e", " ", "S", "a", "f", "a", "r", "i">>
UA_Edge == <<"C", "h", "r", "o", "m", "e", " ", "S", "a", "f", "a", "r", "i", " ", "E", "d", "g">>
UA_Firefox == <<"F", "i", "r", "e", "f", "o", "x">>
UA_Safari == <<"S", "a", "f", "a", "r", "i">>
UA_OperaNew == <<"C", "h", "r", "o", "m", "e", " ", "S", "a", "f", "a", "r", "i", " ", "O", "P", "R">>
UA_OperaOld == <<"O", "p", "e", "r", "a">>
UA_Other == <<"c", "u", "r", "l">>
K_chrome == <<"c", "h", "r", "o", "m", "e">>
K_edg == <<"e", "d", "g">>
K_firefox == <<"f", "i", "r", "e", "f", "o", "x">>
K_safari == <<"s", "a", "f", "a", "r", "i">>
K_opera == <<"o", "p", "e", "r", "a">>
K_opr == <<"o", "p", "r">>
P_play == <<"p", "l", "a", "y">>
P_pause == <<"p", "a", "u", "s", "e">>
P_skipIntro == <<"s", "k", "i", "p", " ", "i", "n", "t", "r", "o">>
P_subtitlesOn == <<"s", "u", "b", "t", "i", "t", "l", "e", "s", " ", "o", "n">>
P_subtitlesOff == <<"s", "u", "b", "t", "i", "t", "l", "e", "s", " ", "o", "f", "f">>
T_pleasePlay == <<"p", "l", "e", "a", "s", "e", " ", "p", "l", "a", "y", " ", "t", "h", "e", " ", "m", "o", "v", "i", "e">>
T_Play == <<"P", "l", "a", "y", " ", "M", "o", "v", "i", "e">>
T_pause == <<"p", "a", "u", "s", "e", " ", "m", "o", "v", "i", "e">>
T_display == <<"d", "i", "s", "p", "l", "a", "y">>
T_skipIntroNow == <<"s", "k", "i", "p", " ", "i", "n", "t", "r", "o", " ", "n", "o", "w">>
T_subtitlesOn == <<"s", "u", "b", "t", "i", "t", "l", "e", "s", " ", "o", "n">>
T_subtitlesOff == <<"s", "u", "b", "t", "i", "t", "l", "e", "s", " ", "o", "f", "f">>
T_turnOnSubtitles == <<"t", "u", "r", "n", " ", "o", "n", " ", "s", "u", "b", "t", "i", "t", "l", "e", "s">>
T_pausePlay == <<"p", "a", "u", "s", "e", " ", "t", "h", "e", "n", " ", "p", "l", "a", "y">>
T_skipIntroPlay == <<"s", "k", "i", "p", " ", "i", "n", "t", "r", "o", " ", "a", "n", "d", " ", "p", "l", "a", "y">>
T_subsOnOff == <<"s", "u", "b", "t", "i", "t", "l", "e", "s", " ", "o", "f", "f", " ", "s", "u", "b", "t", "i", "t", "l", "e", "s", " ", "o", "n">>
T_skipIntro == <<"s", "k", "i", "p", " ", "i", "n", "t", "r", "o">>
T_turnOffSubtitles == <<"t", "u", "r", "n", " ", "o", "f", "f", " ", "s", "u", "b", "t", "i", "t", "l", "e", "s">>
T_hello == <<"h", "e", "l", "l", "o">>

\* String.prototype.toLowerCase, on the letters that occur in the inputs.
LowerChar(c) ==
  CASE c = "B" -> "b" [] c = "C" -> "c" [] c = "E" -> "e" [] c = "F" -> "f"
    [] c = "M" -> "m" [] c = "O" -> "o" [] c = "P" -> "p" [] c = "R" -> "r"
    [] c = "S" -> "s" [] c = "T" -> "t" [] c = "U" -> "u"
    [] OTHER -> c

toLowerCase(s) == [i \in 1..Len(s) |-> LowerChar(s[i])]

\* String.prototype.includes: sub occurs in s as a contiguous substring.
includes(s, sub) ==
  \E i \in 0..(Len(s) - Len(sub)) : SubSeq(s, i + 1, i + Len(sub)) = sub

---------------------------------------------------------------------------
(* Runtime environment *)

UserAgents == {UA_Chrome, UA_Edge, UA_Firefox, UA_Safari, UA_OperaNew,
               UA_OperaOld, UA_Other}
Protocols  == {"http:", "https:", "file:"}
Hostnames  == {"localhost", "127.0.0.1", "example.com", "[::1]"}

Environments ==
  [SpeechRecognition : BOOLEAN, webkitSpeechRecognition : BOOLEAN,
   mediaDevices : BOOLEAN, getUserMedia : BOOLEAN, MediaRecorder : BOOLEAN,
   protocol : Protocols, hostname : Hostnames, userAgent : UserAgents]

---------------------------------------------------------------------------
(* utils/browserSupport.ts *)

browserNameOf(userAgent) ==
  IF includes(userAgent, K_chrome) /\ ~includes(userAgent, K_edg) THEN "Chrome"
  ELSE IF includes(userAgent, K_firefox) THEN "Firefox"
  ELSE IF includes(userAgent, K_safari) /\ ~includes(userAgent, K_chrome) THEN "Safari"
  ELSE IF includes(userAgent, K_edg) THEN "Edge"
  ELSE IF includes(userAgent, K_opera) \/ includes(userAgent, K_opr) THEN "Opera"
  ELSE "Unknown"

hasNativeSpeechRecognition(e) == e.SpeechRecognition \/ e.webkitSpeechRecognition

hasMediaRecorder(e) == e.mediaDevices /\ e.getUserMedia /\ e.MediaRecorder

canUsePolyfill(e) ==
  e.protocol = "https:" \/ e.hostname = "localhost" \/ e.hostname = "127.0.0.1"

\* The initial value of the local `recommendedMode` (line 54).
BrokenDefaultMode == "undefined"

DefaultMode == "polyfill"

\* The if / else-if chain of lines 57-68: <<recommendedMode, supportMessage>>.
BrokenRecommend(native, media, polyfill) ==
  IF media /\ polyfill THEN <<"server", "server-side">>
  ELSE IF native THEN <<"native", "excellent">>
  ELSE IF polyfill THEN <<"polyfill", "polyfill">>
  ELSE <<DefaultMode, "limited">>

Recommend(native, media, polyfill) ==
  IF native THEN <<"native", "excellent">>
  ELSE IF media /\ polyfill THEN <<"server", "server-side">>
  ELSE IF polyfill THEN <<"polyfill", "polyfill">>
  ELSE <<DefaultMode, "limited">>

detectBrowserSupport(e) ==
  LET userAgent == toLowerCase(e.userAgent)
      r == Recommend(hasNativeSpeechRecognition(e), hasMediaRecorder(e),
                     canUsePolyfill(e))
  IN [outcome |-> "returned",
      hasNativeSpeechRecognition |-> hasNativeSpeechRecognition(e),
      hasMediaRecorder |-> hasMediaRecorder(e),
      canUsePolyfill |-> canUsePolyfill(e),
      browserName |-> browserNameOf(userAgent),
      recommendedMode |-> r[1],
      supportMessage |-> <<browserNameOf(userAgent), r[2]>>]

canUseSpeechRecognition(e) ==
  LET s == detectBrowserSupport(e)
  IN s.hasNativeSpeechRecognition \/ s.hasMediaRecorder \/ s.canUsePolyfill

NoSupport == [outcome |-> "not called"]

---------------------------------------------------------------------------
(* Bounds of the model *)

MaxAdapters   == 3     \* adapters constructed by one player (initial + re-renders)
MaxRecogs     == 2     \* native SpeechRecognition objects constructed
MaxCallbacks  == 2     \* callbacks of one kind registered on window.annyang
MediaDuration == 200   \* length of the media resource, in seconds
MaxChunks     == 4     \* audio segments held by one streaming session
MaxEvents     == 2     \* play / pause events queued on the media element
MaxFetches    == 3     \* fetches issued before the query stops changing

---------------------------------------------------------------------------
(* Callback log of one operation *)

NoError == <<>>

Call(cb, arg)    == [cb |-> cb, arg |-> arg, acts |-> <<>>]
Dispatched(c, a) == [cb |-> "handleCommand", arg |-> c, acts |-> a]

\* `event` is the platform event a handler received (a SpeechRecognitionEvent's
\* results), <<>> for handlers that read none.
Op(name, a, arg) == [name |-> name, adapter |-> a, arg |-> arg, event |-> <<>>]

---------------------------------------------------------------------------
(* components/VideoPlayer.tsx: VOICE_COMMANDS and handleCommand *)

VOICE_COMMANDS ==
  << [name |-> "play",         phrase |-> P_play],
     [name |-> "pause",        phrase |-> P_pause],
     [name |-> "skipIntro",    phrase |-> P_skipIntro],
     [name |-> "subtitlesOn",  phrase |-> P_subtitlesOn],
     [name |-> "subtitlesOff", phrase |-> P_subtitlesOff] >>

match(command, cmd) == includes(cmd, command.phrase)

SkipSeconds == 90

\* HTMLMediaElement: a seek past the end lands on the end of the resource.
Seek(t) == IF t > MediaDuration THEN MediaDuration ELSE t

\* HTMLMediaElement.play(): `allowed` is the element's answer (the autoplay
\* policy or an unusable source refuses the request: the returned promise
\* rejects, the element stays paused and fires nothing). A granted request
\* on a paused element clears `paused` and queues a play event.
play(p, allowed) ==
  IF allowed /\ p.paused
    THEN [p EXCEPT !.paused = FALSE, !.events = Append(@, "play")]
    ELSE p

\* HTMLMediaElement.pause(): on a playing element sets `paused` and queues a
\* pause event.
pause(p) ==
  IF ~p.paused
    THEN [p EXCEPT !.paused = TRUE, !.events = Append(@, "pause")]
    ELSE p

\* The command table with `currentTime = 90` for skipIntro.
absoluteSkip(name, p, allowed) ==
  CASE name = "play" ->
         [play(p, allowed) EXCEPT !.isPlaying = TRUE]
    [] name = "pause" ->
         [pause(p) EXCEPT !.isPlaying = FALSE]
    [] name = "skipIntro" ->
         [p EXCEPT !.currentTime = 90]
    [] name = "subtitlesOn" ->
         [p EXCEPT !.showSubtitles = TRUE]
    [] name = "subtitlesOff" ->
         [p EXCEPT !.showSubtitles = FALSE]

\* The action of one voice command, on the player state p.
action(name, p, allowed) ==
  CASE name = "play" ->
         [play(p, allowed) EXCEPT !.isPlaying = TRUE]
    [] name = "pause" ->
         [pause(p) EXCEPT !.isPlaying = FALSE]
    [] name = "skipIntro" ->
         [p EXCEPT !.currentTime = Seek(@ + SkipSeconds)]
    [] name = "subtitlesOn" ->
         [p EXCEPT !.showSubtitles = TRUE]
    [] name = "subtitlesOff" ->
         [p EXCEPT !.showSubtitles = FALSE]

\* Every command that matches, in table order (what forEach would run).
RECURSIVE EveryMatch(_, _)
EveryMatch(cmd, i) ==
  IF i > Len(VOICE_COMMANDS) THEN <<>>
  ELSE (IF match(VOICE_COMMANDS[i], cmd) THEN <<VOICE_COMMANDS[i].name>> ELSE <<>>)
       \o EveryMatch(cmd, i + 1)

\* Array.prototype.some: stops at the first callback that returns true.
RECURSIVE some(_, _)
some(cmd, i) ==
  IF i > Len(VOICE_COMMANDS) THEN <<>>
  ELSE IF match(VOICE_COMMANDS[i], cmd) THEN <<VOICE_COMMANDS[i].name>>
  ELSE some(cmd, i + 1)

RECURSIVE RunActions(_, _, _)
RunActions(names, p, allowed) ==
  IF names = <<>> THEN p
  ELSE RunActions(Tail(names), action(Head(names), p, allowed), allowed)

\* handleCommand without the guard of line 283.
unguardedActions(cmd, attached) == some(cmd, 1)

\* The names of the actions handleCommand runs for cmd.
handleCommandActions(cmd, attached) ==
  IF ~attached THEN <<>> ELSE some(cmd, 1)

handleCommand(cmd, p, attached, allowed) ==
  RunActions(handleCommandActions(cmd, attached), p, allowed)

---------------------------------------------------------------------------
(* services/speechRecognitionPolyfill.ts: class SpeechRecognitionPolyfill *)

\* detectBestMode, called by the constructor.
detectBestMode(e) ==
  IF e.SpeechRecognition \/ e.webkitSpeechRecognition THEN "native"
  ELSE IF e.mediaDevices /\ e.getUserMedia /\ e.MediaRecorder THEN "server"
  ELSE "annyang"

\* A freshly constructed adapter (field initialisers and constructor).
NewAdapter(e) ==
  [isListening |-> FALSE, recognition |-> 0, mediaRecorder |-> 0,
   fallbackMode |-> detectBestMode(e)]

Cur == Len(adapters)

\* The mutable world a handler runs in, plus the callbacks it has invoked and
\* the way the call ended.
Now ==
  [adapters |-> adapters, recogs |-> recogs, annyang |-> annyang, hook |-> hook,
   player |-> player, calls |-> <<>>, outcome |-> "none", fault |-> "none"]

\* hooks/useVoiceControl.ts: the callbacks handed to the adapter. m tells
\* whether the component is still mounted (state setters of an unmounted
\* component change nothing).
\* onStart without the setError(null) of line 62.
onStartKeepsError(S, m) ==
  [S EXCEPT !.hook = IF m THEN [@ EXCEPT !.isListening = TRUE] ELSE @,
            !.calls = Append(@, Call("onStart", <<>>))]

onStart(S, m) ==
  [S EXCEPT !.hook = IF m THEN [@ EXCEPT !.isListening = TRUE, !.error = NoError] ELSE @,
            !.calls = Append(@, Call("onStart", <<>>))]

onEnd(S, m) ==
  [S EXCEPT !.hook = IF m THEN [@ EXCEPT !.isListening = FALSE] ELSE @,
            !.calls = Append(@, Call("onEnd", <<>>))]

onError(S, m, errorMessage) ==
  [S EXCEPT !.hook = IF m THEN [@ EXCEPT !.error = errorMessage, !.isListening = FALSE]
                     ELSE @,
            !.calls = Append(@, Call("onError", errorMessage))]

onResult(S, m, transcript, confidence, allowed) ==
  LET cmd == toLowerCase(transcript)
  IN [S EXCEPT !.player = handleCommand(cmd, @, m, allowed),
               !.calls = @ \o << Call("onResult", <<transcript, confidence>>),
                                 Dispatched(cmd, handleCommandActions(cmd, m)) >>]

\* start(), line 79.
neverListening(ad) == FALSE

alreadyListening(ad) == ad.isListening

\* startNativeRecognition: `f` is what the platform does to this call
\* ("none", "ctor": the constructor throws, "start": recognition.start()
\* throws). Returns the world with S.fault set when an exception escapes.
startNativeRecognition(S, a, f) ==
  IF f = "ctor" THEN [S EXCEPT !.fault = "ctor"]
  ELSE LET r == Len(S.recogs) + 1
           made == [S EXCEPT
                      !.recogs = Append(@, [owner |-> a,
                                            state |-> IF f = "start" THEN "unstarted"
                                                      ELSE "started"]),
                      !.adapters[a].recognition = r]
       IN IF f = "start" THEN [made EXCEPT !.fault = "start"] ELSE made

\* The part of startAnnyangRecognition after the script is available
\* (lines 178-198).
configureAnnyang(S) ==
  IF S.annyang.present
    THEN [S EXCEPT !.annyang.resultCallbacks = @ + 1,
                   !.annyang.errorCallbacks = @ + 1,
                   !.annyang.listening = TRUE]
    ELSE [S EXCEPT !.fault = "no-annyang"]

\* The tail of start(): lines 90-94, after the backend's start has settled.
rethrowStart(S, a, m) ==
  IF S.fault = "none"
    THEN onStart([S EXCEPT !.adapters[a].isListening = TRUE, !.outcome = "started"], m)
    ELSE [S EXCEPT !.outcome = "threw"]

finishStart(S, a, m) ==
  IF S.fault = "none"
    THEN onStart([S EXCEPT !.adapters[a].isListening = TRUE, !.outcome = "started"], m)
    ELSE onError([S EXCEPT !.outcome = "failed"], m,
                 <<"Failed to start speech recognition: ", S.fault>>)

\* loadAnnyangScript that never finds a script element.
noScriptTag(S) == FALSE

\* document.querySelector('script[src*="annyang"]') (line 206): the element
\* stays in the page whether it is loading, has loaded or has failed.
scriptTagPresent(S) == S.annyang.script # "absent"

\* start(). In annyang mode with neither window.annyang nor a script element,
\* the call appends the script and stays suspended until it loads or fails.
start(S, a, m, f) ==
  LET ad == S.adapters[a] IN
  IF alreadyListening(ad) THEN [S EXCEPT !.outcome = "noop"]
  ELSE CASE ad.fallbackMode = "native" ->
              finishStart(startNativeRecognition(S, a, f), a, m)
         [] ad.fallbackMode = "server" ->
              finishStart(S, a, m)
         [] ad.fallbackMode = "annyang" ->
              IF ~S.annyang.present /\ ~scriptTagPresent(S)
                THEN [S EXCEPT !.annyang.script = "loading",
                               !.annyang.appended = @ + 1,
                               !.annyang.pending = a,
                               !.outcome = "suspended"]
                ELSE finishStart(configureAnnyang(S), a, m)

\* stop().
stop(S, a, m) ==
  LET ad == S.adapters[a] IN
  IF ~ad.isListening THEN [S EXCEPT !.outcome = "noop"]
  ELSE LET backend ==
             CASE ad.fallbackMode = "native" ->
                    IF ad.recognition # 0 /\ S.recogs[ad.recognition].state = "started"
                      THEN [S EXCEPT !.recogs[ad.recognition].state = "stopping"]
                      ELSE S
               [] ad.fallbackMode = "server" -> S      \* this.mediaRecorder is null
               [] ad.fallbackMode = "annyang" ->
                    IF S.annyang.present THEN [S EXCEPT !.annyang.listening = FALSE]
                    ELSE S
       IN onEnd([backend EXCEPT !.adapters[a].isListening = FALSE,
                                !.outcome = "stopped"], m)

---------------------------------------------------------------------------
(* Inputs *)

Transcripts ==
  {T_pleasePlay, T_Play, T_pause, T_display, T_skipIntroNow, T_subtitlesOn,
   T_subtitlesOff, T_turnOnSubtitles, T_pausePlay, T_skipIntroPlay, T_subsOnOff,
   T_skipIntro, T_turnOffSubtitles, T_hello}

\* SpeechRecognitionErrorEvent.error codes delivered by the platform.
ErrorCodes == {"no-speech", "not-allowed"}

\* The environments a session is explored in: one with the native API, and
\* every combination of media recording and secure origin without it (the
\* adapter reads nothing else once the native constructor is present).
SessionEnvs ==
  {e \in Environments :
     /\ e.userAgent = UA_Other
     /\ ~e.webkitSpeechRecognition
     /\ e.getUserMedia = e.mediaDevices
     /\ e.MediaRecorder = e.mediaDevices
     /\ e.protocol \in {"http:", "https:"}
     /\ e.hostname = "example.com"
     /\ e.SpeechRecognition => (e.mediaDevices /\ e.protocol = "https:")}

NoAnnyang ==
  [present |-> FALSE, script |-> "absent", appended |-> 0, pending |-> 0,
   resultCallbacks |-> 0, errorCallbacks |-> 0, listening |-> FALSE]

\* `tracks` is video.textTracks; without a subtitleUrl no <track> is rendered.
NewPlayer ==
  [isPlaying |-> FALSE, showSubtitles |-> FALSE, paused |-> TRUE, currentTime |-> 0,
   events |-> <<>>, tracks |-> <<>>]

\* The state values the closures of the first render captured.
FirstRender ==
  [isListening |-> FALSE, isPlaying |-> FALSE, showSubtitles |-> FALSE]

RECURSIVE find(_, _, _)
\* Array.prototype.find over the track list: the index of the first track
\* from position i on with the given label, 0 when there is none.
find(tracks, label, i) ==
  IF i > Len(tracks) THEN 0
  ELSE IF tracks[i].label = label THEN i
  ELSE find(tracks, label, i + 1)

ModeOf(showSubtitles) == IF showSubtitles THEN "showing" ELSE "hidden"

\* The effect applied to the first track of the list, whatever its label.
firstTrackEffect(p) ==
  IF Len(p.tracks) = 0 THEN p
  ELSE [p EXCEPT !.tracks[1].mode = ModeOf(p.showSubtitles)]

\* The subtitle effect (lines 263-275).
subtitleEffect(p) ==
  IF Len(p.tracks) = 0 THEN p
  ELSE LET subtitlesTrack == find(p.tracks, "English", 1)
       IN IF subtitlesTrack # 0
            THEN [p EXCEPT !.tracks[subtitlesTrack].mode = ModeOf(p.showSubtitles)]
            ELSE p

NoStream == [phase |-> "none"]

NoCatalog == [kind |-> "none"]

NoCarousel == [phase |-> "none"]

NoExchange == [kind |-> "none"]

---------------------------------------------------------------------------
(* Detection on its own *)

InitDetect ==
  /\ env \in Environments
  /\ support = NoSupport
  /\ mounted = FALSE
  /\ adapters = <<>>
  /\ recogs = <<>>
  /\ annyang = NoAnnyang
  /\ hook = [isListening |-> FALSE, error |-> NoError, currentMode |-> "detecting..."]
  /\ rendered = FirstRender
  /\ renderPending = FALSE
  /\ player = NewPlayer
  /\ stream = NoStream
  /\ catalog = NoCatalog
  /\ carousel = NoCarousel
  /\ exchange = NoExchange
  /\ lastOp = Op("load", 0, <<>>)
  /\ lastCalls = <<>>

\* VoiceControlInfo's effect (and any other caller) queries the detector.
DetectSupport ==
  /\ support' = detectBrowserSupport(env)
  /\ lastOp' = Op("detectBrowserSupport", 0, <<>>)
  /\ lastCalls' = <<>>
  /\ UNCHANGED <<env, sessionVars, playerVars, streamVars, catalogVars>>

NextDetect == DetectSupport

SpecDetect == InitDetect /\ [][NextDetect]_vars

---------------------------------------------------------------------------
(* The player: hook, adapter and recognition backends *)

\* The mount: first render, then the initialisation effect constructs the
\* adapter and calls setCurrentMode, which asks for a re-render.
Init ==
  /\ env \in SessionEnvs
  /\ support = NoSupport
  /\ mounted = TRUE
  /\ adapters = <<NewAdapter(env)>>
  /\ recogs = <<>>
  /\ annyang = NoAnnyang
  /\ hook = [isListening |-> FALSE, error |-> NoError,
             currentMode |-> detectBestMode(env)]
  /\ rendered = FirstRender
  /\ renderPending = TRUE
  /\ player = NewPlayer
  /\ stream = NoStream
  /\ catalog = NoCatalog
  /\ carousel = NoCarousel
  /\ exchange = NoExchange
  /\ lastOp = Op("mount", 1, <<>>)
  /\ lastCalls = <<>>

\* A state update that changes a value schedules a re-render.
NeedsRender(S) ==
  mounted /\ (S.hook # hook \/ S.player.isPlaying # player.isPlaying
                            \/ S.player.showSubtitles # player.showSubtitles)

Commit(S, op) ==
  /\ adapters' = S.adapters
  /\ recogs' = S.recogs
  /\ annyang' = S.annyang
  /\ hook' = S.hook
  /\ player' = S.player
  /\ lastCalls' = S.calls
  /\ lastOp' = op
  /\ UNCHANGED <<env, support, stream, catalogVars>>

\* What the platform may do to a start() call on adapter a.
StartFaults(a) ==
  IF adapters[a].isListening THEN {"none"}
  ELSE IF adapters[a].fallbackMode = "native" THEN {"none", "ctor", "start"}
  ELSE {"none"}

\* The model's bounds on objects a start() creates.
WithinBounds(a, f) ==
  \/ adapters[a].isListening
  \/ /\ adapters[a].fallbackMode = "native" => (f = "ctor" \/ Len(recogs) < MaxRecogs)
     /\ adapters[a].fallbackMode = "annyang" => annyang.resultCallbacks < MaxCallbacks

\* The hook's startListening (lines 88-106).
startListening(S, f) ==
  IF rendered.isListening THEN [S EXCEPT !.outcome = "skipped"]
  ELSE LET R == start(S, Cur, TRUE, f)
       IN IF R.outcome = "threw"
            THEN [R EXCEPT !.hook.error =
                             <<"Failed to start speech recognition: ", R.fault>>]
            ELSE R

\* The hook's stopListening (lines 111-121).
stopListening(S) == stop(S, Cur, TRUE)

StartListening ==
  /\ mounted
  /\ \E f \in StartFaults(Cur) :
       /\ WithinBounds(Cur, f)
       /\ LET S == startListening(Now, f)
          IN /\ Commit(S, Op("startListening", Cur, <<S.outcome, S.fault>>))
             /\ renderPending' = (renderPending \/ NeedsRender(S))
  /\ UNCHANGED <<mounted, rendered>>

StopListening ==
  /\ mounted
  /\ LET S == stopListening(Now)
     IN /\ Commit(S, Op("stopListening", Cur, <<S.outcome, S.fault>>))
        /\ renderPending' = (renderPending \/ NeedsRender(S))
  /\ UNCHANGED <<mounted, rendered>>

\* The microphone button: isListening ? stopListening() : startListening().
ClickMic ==
  /\ mounted
  /\ \E f \in StartFaults(Cur) :
       /\ WithinBounds(Cur, f)
       /\ LET S == IF rendered.isListening THEN stopListening(Now)
                   ELSE startListening(Now, f)
          IN /\ Commit(S, Op(IF rendered.isListening THEN "stopListening"
                             ELSE "startListening", Cur, <<S.outcome, S.fault>>))
             /\ renderPending' = (renderPending \/ NeedsRender(S))
  /\ UNCHANGED <<mounted, rendered>>

\* A re-render of VideoPlayer. handleCommand is a new function on every
\* render, so the hook's effect (deps [onCommand, options.language]) runs its
\* cleanup and then constructs a new adapter. The subtitle effect (deps
\* [showSubtitles, subtitleUrl]) runs when the flag differs from the one of
\* the previous render.
Render ==
  /\ mounted
  /\ renderPending
  /\ Cur < MaxAdapters
  /\ LET cleaned == IF adapters[Cur].isListening THEN stop(Now, Cur, TRUE) ELSE Now
         S == [cleaned EXCEPT !.adapters = Append(@, NewAdapter(env)),
                              !.hook.currentMode = detectBestMode(env),
                              !.player = IF player.showSubtitles # rendered.showSubtitles
                                           THEN subtitleEffect(@) ELSE @]
     IN /\ Commit(S, Op("render", Cur, <<>>))
        /\ renderPending' = (S.hook # hook)
  /\ rendered' = [isListening |-> hook.isListening, isPlaying |-> player.isPlaying,
                  showSubtitles |-> player.showSubtitles]
  /\ UNCHANGED mounted

\* Component teardown: the effect's cleanup.
Unmount ==
  /\ mounted
  /\ LET S == IF adapters[Cur].isListening THEN stop(Now, Cur, FALSE) ELSE Now
     IN Commit(S, Op("unmount", Cur, <<>>))
  /\ mounted' = FALSE
  /\ renderPending' = FALSE
  /\ UNCHANGED rendered

---------------------------------------------------------------------------
(* Events of the recognition backends *)

\* Confidence scores are in hundredths (100 is 1.0); NoScore is an
\* alternative whose `confidence` property is undefined.
NoScore == -1

Alternative(t, c) == [transcript |-> t, confidence |-> c]

\* event.results with one result of one alternative.
SingleResult(t) == << << Alternative(t, 50) >> >>

\* `x || 1.0` (line 137): every falsy x gives the right-hand side.
orDefault(x) == IF x = NoScore \/ x = 0 THEN 100 ELSE x

\* recognition.onresult (lines 134-139), then the hook's onResult. An event
\* is its `results`: a sequence of results, each a sequence of alternatives.
NativeResult(r, event, allowed) ==
  /\ recogs[r].state \in {"started", "stopping"}
  /\ LET result == event[Len(event)]
         transcript == result[1].transcript
         confidence == orDefault(result[1].confidence)
         S == onResult(Now, mounted, transcript, confidence, allowed)
     IN /\ Commit(S, [Op("nativeResult", recogs[r].owner, transcript)
                        EXCEPT !.event = event])
        /\ renderPending' = (renderPending \/ NeedsRender(S))
  /\ UNCHANGED <<mounted, rendered>>

\* recognition.onerror (lines 141-143). The platform ends the session after
\* an error, so the end event is still to come.
NativeError(r, code) ==
  /\ recogs[r].state \in {"started", "stopping"}
  /\ LET S == onError([Now EXCEPT !.recogs[r].state = "errored"], mounted,
                      <<"Speech recognition error: ", code>>)
     IN /\ Commit(S, Op("nativeError", recogs[r].owner, <<code>>))
        /\ renderPending' = (renderPending \/ NeedsRender(S))
  /\ UNCHANGED <<mounted, rendered>>

\* recognition.onend (lines 145-148).
NativeEnd(r) ==
  /\ recogs[r].state \in {"started", "stopping", "errored"}
  /\ LET a == recogs[r].owner
         S == onEnd([Now EXCEPT !.recogs[r].state = "ended",
                                !.adapters[a].isListening = FALSE], mounted)
     IN /\ Commit(S, Op("nativeEnd", a, <<>>))
        /\ renderPending' = (renderPending \/ NeedsRender(S))
  /\ UNCHANGED <<mounted, rendered>>

\* script.onload (line 213): the suspended start() resumes at line 178.
\* `defines` tells whether the script left a usable window.annyang.
ScriptLoaded(defines) ==
  /\ annyang.script = "loading"
  /\ LET a == annyang.pending
         S0 == [Now EXCEPT !.annyang.script = "loaded", !.annyang.present = defines,
                           !.annyang.pending = 0]
         S == finishStart(configureAnnyang(S0), a, mounted)
     IN /\ Commit(S, Op("scriptLoaded", a, <<S.outcome, S.fault>>))
        /\ renderPending' = (renderPending \/ NeedsRender(S))
  /\ UNCHANGED <<mounted, rendered>>

\* script.onerror (line 214): the suspended start() rejects.
ScriptError ==
  /\ annyang.script = "loading"
  /\ LET a == annyang.pending
         S0 == [Now EXCEPT !.annyang.script = "failed", !.annyang.pending = 0,
                           !.fault = "script-error"]
         S == finishStart(S0, a, mounted)
     IN /\ Commit(S, Op("scriptError", a, <<S.outcome, S.fault>>))
        /\ renderPending' = (renderPending \/ NeedsRender(S))
  /\ UNCHANGED <<mounted, rendered>>

\* The 'result' callbacks registered at lines 183-187, one per start().
RECURSIVE resultCallbacks(_, _, _, _, _)
resultCallbacks(S, n, m, phrases, allowed) ==
  IF n = 0 THEN S
  ELSE resultCallbacks(IF Len(phrases) > 0 THEN onResult(S, m, phrases[1], 100, allowed)
                       ELSE S,
                       n - 1, m, phrases, allowed)

\* The 'error' callbacks registered at lines 190-192.
RECURSIVE errorCallbacks(_, _, _, _)
errorCallbacks(S, n, m, code) ==
  IF n = 0 THEN S
  ELSE errorCallbacks(onError(S, m, <<"Annyang error: ", code>>), n - 1, m, code)

AnnyangResult(phrases, allowed) ==
  /\ annyang.present
  /\ annyang.listening
  /\ LET S == resultCallbacks(Now, annyang.resultCallbacks, mounted, phrases, allowed)
     IN /\ Commit(S, Op("annyangResult", 0, phrases))
        /\ renderPending' = (renderPending \/ NeedsRender(S))
  /\ UNCHANGED <<mounted, rendered>>

AnnyangError(code) ==
  /\ annyang.present
  /\ annyang.listening
  /\ LET S == errorCallbacks(Now, annyang.errorCallbacks, mounted, code)
     IN /\ Commit(S, Op("annyangError", 0, <<code>>))
        /\ renderPending' = (renderPending \/ NeedsRender(S))
  /\ UNCHANGED <<mounted, rendered>>

\* Transcripts the recognisers deliver while the session itself is explored.
SessionTranscripts == {T_pleasePlay, T_hello}

Phrases == {<<>>} \cup {<<t>> : t \in SessionTranscripts}

Next ==
  \/ StartListening
  \/ StopListening
  \/ ClickMic
  \/ Render
  \/ Unmount
  \/ \E r \in DOMAIN recogs, t \in SessionTranscripts, allowed \in BOOLEAN :
       NativeResult(r, SingleResult(t), allowed)
  \/ \E r \in DOMAIN recogs, code \in ErrorCodes : NativeError(r, code)
  \/ \E r \in DOMAIN recogs : NativeEnd(r)
  \/ \E defines \in BOOLEAN : ScriptLoaded(defines)
  \/ ScriptError
  \/ \E phrases \in Phrases, allowed \in BOOLEAN : AnnyangResult(phrases, allowed)
  \/ \E code \in ErrorCodes : AnnyangError(code)

Spec == Init /\ [][Next]_vars

---------------------------------------------------------------------------
(* The command dispatcher under every transcript *)

NativeEnv ==
  [SpeechRecognition |-> TRUE, webkitSpeechRecognition |-> FALSE,
   mediaDevices |-> TRUE, getUserMedia |-> TRUE, MediaRecorder |-> TRUE,
   protocol |-> "https:", hostname |-> "example.com", userAgent |-> UA_Chrome]

\* A mounted player whose native session has just started: the state Spec
\* reaches from Init by one startListening() in a browser with the native API.
InitPlayer ==
  /\ env = NativeEnv
  /\ support = NoSupport
  /\ mounted = TRUE
  /\ adapters = <<[NewAdapter(NativeEnv) EXCEPT !.isListening = TRUE,
                                                 !.recognition = 1]>>
  /\ recogs = <<[owner |-> 1, state |-> "started"]>>
  /\ annyang = NoAnnyang
  /\ hook = [isListening |-> TRUE, error |-> NoError, currentMode |-> "native"]
  /\ rendered = FirstRender
  /\ renderPending = TRUE
  /\ player = NewPlayer
  /\ stream = NoStream
  /\ catalog = NoCatalog
  /\ carousel = NoCarousel
  /\ exchange = NoExchange
  /\ lastOp = Op("startListening", 1, <<"started", "none">>)
  /\ lastCalls = <<Call("onStart", <<>>)>>

\* The media element delivers its oldest queued event to the listeners the
\* effect of lines 337-356 attached: handlePlay / handlePause. The effect's
\* cleanup removes them at unmount.
MediaEvent ==
  /\ player.events # <<>>
  /\ LET ev == Head(player.events)
         S == [Now EXCEPT !.player.events = Tail(@),
                          !.player.isPlaying = IF mounted THEN ev = "play" ELSE @,
                          !.calls = IF mounted
                                      THEN <<Call(IF ev = "play" THEN "handlePlay"
                                                  ELSE "handlePause", <<>>)>>
                                      ELSE <<>>]
     IN /\ Commit(S, Op("mediaEvent", 0, <<ev>>))
        /\ renderPending' = (renderPending \/ NeedsRender(S))
  /\ UNCHANGED <<mounted, rendered>>

\* The play / pause button of the control bar (line 395); isPlaying is the
\* value the last render captured.
ClickPlayButton(allowed) ==
  /\ mounted
  /\ Len(player.events) < MaxEvents
  /\ LET S == [Now EXCEPT !.player = IF rendered.isPlaying THEN pause(@)
                                     ELSE play(@, allowed)]
     IN /\ Commit(S, Op("clickPlayButton", 0, <<rendered.isPlaying, allowed>>))
        /\ renderPending' = (renderPending \/ NeedsRender(S))
  /\ UNCHANGED <<mounted, rendered>>

\* The element's own controls (the `controls` attribute, line 377): the user
\* toggles playback on the element itself.
NativeControl(allowed) ==
  /\ mounted
  /\ Len(player.events) < MaxEvents
  /\ LET S == [Now EXCEPT !.player = IF player.paused THEN play(@, allowed)
                                     ELSE pause(@)]
     IN /\ Commit(S, Op("nativeControl", 0, <<player.paused, allowed>>))
        /\ renderPending' = (renderPending \/ NeedsRender(S))
  /\ UNCHANGED <<mounted, rendered>>

NextPlayer ==
  \/ \E r \in DOMAIN recogs, t \in Transcripts, allowed \in BOOLEAN :
       Len(player.events) < MaxEvents /\ NativeResult(r, SingleResult(t), allowed)
  \/ \E r \in DOMAIN recogs : NativeEnd(r)
  \/ MediaEvent
  \/ \E allowed \in BOOLEAN : ClickPlayButton(allowed)
  \/ \E allowed \in BOOLEAN : NativeControl(allowed)
  \/ Render
  \/ Unmount

SpecPlayer == InitPlayer /\ [][NextPlayer]_vars

---------------------------------------------------------------------------
(* The subtitle flag and the text tracks of the media element *)

Track(label, mode) == [label |-> label, mode |-> mode]

\* video.textTracks after the mount: the <track label="English"> of lines
\* 380-388 when a subtitleUrl is given (made "hidden" by the effect's first
\* run), followed by the in-band tracks of the media resource, if any.
TrackLists ==
  { <<>>,
    <<Track("English", "hidden")>>,
    <<Track("Spanish", "disabled")>>,
    <<Track("English", "hidden"), Track("Spanish", "disabled")>> }

InitSubtitles ==
  /\ env = NativeEnv
  /\ support = NoSupport
  /\ mounted = TRUE
  /\ adapters = <<[NewAdapter(NativeEnv) EXCEPT !.isListening = TRUE,
                                                 !.recognition = 1]>>
  /\ recogs = <<[owner |-> 1, state |-> "started"]>>
  /\ annyang = NoAnnyang
  /\ hook = [isListening |-> TRUE, error |-> NoError, currentMode |-> "native"]
  /\ rendered = FirstRender
  /\ renderPending = TRUE
  /\ \E tracks \in TrackLists : player = [NewPlayer EXCEPT !.tracks = tracks]
  /\ stream = NoStream
  /\ catalog = NoCatalog
  /\ carousel = NoCarousel
  /\ exchange = NoExchange
  /\ lastOp = Op("startListening", 1, <<"started", "none">>)
  /\ lastCalls = <<Call("onStart", <<>>)>>

\* The CC button (line 420): setShowSubtitles(!showSubtitles) with the value
\* the last render captured.
ClickSubtitles ==
  /\ mounted
  /\ LET S == [Now EXCEPT !.player.showSubtitles = ~rendered.showSubtitles]
     IN /\ Commit(S, Op("clickSubtitles", 0, <<rendered.showSubtitles>>))
        /\ renderPending' = (renderPending \/ NeedsRender(S))
  /\ UNCHANGED <<mounted, rendered>>

SubtitleTranscripts == {T_subtitlesOn, T_subtitlesOff, T_hello}

NextSubtitles ==
  \/ ClickSubtitles
  \/ \E r \in DOMAIN recogs, t \in SubtitleTranscripts :
       NativeResult(r, SingleResult(t), TRUE)
  \/ \E r \in DOMAIN recogs : NativeEnd(r)
  \/ Render
  \/ Unmount

SpecSubtitles == InitSubtitles /\ [][NextSubtitles]_vars

---------------------------------------------------------------------------
(* The native result handler under every shape of result event *)

Confidences == {NoScore, 0, 50, 100}

Alternatives == {Alternative(t, c) : t \in {T_Play, T_hello}, c \in Confidences}

\* A result holds one or two alternatives (the second one a lower-ranked
\* hypothesis), an event one or two results.
Results ==
  {<<a>> : a \in Alternatives}
    \cup {<<a, Alternative(T_pause, 50)>> : a \in Alternatives}

ResultEvents ==
  {<<x>> : x \in Results} \cup {<<x, y>> : x, y \in Results}

NextResult ==
  \/ \E r \in DOMAIN recogs, event \in ResultEvents :
       Len(player.events) < MaxEvents /\ NativeResult(r, event, TRUE)
  \/ \E r \in DOMAIN recogs : NativeEnd(r)
  \/ MediaEvent

SpecResult == InitPlayer /\ [][NextResult]_vars

---------------------------------------------------------------------------
(* services/speechRecognition.ts: SpeechRecognitionService.streamAudioToText *)

R_empty  == <<>>
R_blank  == <<" ">>
R_PlayNl == <<"P", "l", "a", "y", " ">>

\* The `text` of a transcription response.
ResponseTexts == {R_empty, R_blank, R_PlayNl}

\* String.prototype.trim, for the blank the inputs use.
RECURSIVE trimStart(_)
trimStart(s) == IF s # <<>> /\ Head(s) = " " THEN trimStart(Tail(s)) ELSE s

RECURSIVE trimEnd(_)
trimEnd(s) ==
  IF s # <<>> /\ s[Len(s)] = " " THEN trimEnd(SubSeq(s, 1, Len(s) - 1)) ELSE s

trim(s) == trimEnd(trimStart(s))

ChunkThreshold == 2

SAMPLE_RATE == 16000
BUFFER_SIZE == 4096

\* convertToWav (lines 386-427) for n samples: the blob is a 44-byte header
\* followed by n 16-bit samples. A blob is the sequence of its parts.
convertToWav(n, sampleRate) ==
  << [kind |-> "header", bytes |-> 44, riffSize |-> 36 + n * 2, fmtSize |-> 16,
      format |-> 1, channels |-> 1, sampleRate |-> sampleRate,
      byteRate |-> sampleRate * 2, blockAlign |-> 2, bitsPerSample |-> 16,
      dataSize |-> n * 2],
     [kind |-> "samples", bytes |-> n * 2] >>

\* new Blob(audioChunks) (line 346) for a buffer of `count` segments, each
\* the blob convertToWav made of one input buffer: the blobs end to end.
Blob(count) ==
  [i \in 1..(2 * count) |-> convertToWav(BUFFER_SIZE, SAMPLE_RATE)[2 - (i % 2)]]

\* The promise executor (lines 314-333, 379): the caller hands in a recorder
\* over a live microphone stream; the audio graph is built and connected and
\* the recorder started.
Engines == {"whisper", "google"}

NewStream(engine) ==
  [engine |-> engine,
   phase |-> "streaming", micLive |-> TRUE, recorder |-> "recording",
   stopQueued |-> FALSE, processorConnected |-> TRUE, sourceConnected |-> TRUE,
   contextClosed |-> FALSE, isProcessing |-> FALSE, converting |-> 0,
   audioChunks |-> 0, inFlight |-> <<>>, payload |-> <<>>,
   callbackAfterStop |-> FALSE]

\* cleanup(), lines 362-366. It leaves the stream's tracks alone.
cleanup(st) ==
  [st EXCEPT !.processorConnected = FALSE, !.sourceConnected = FALSE,
             !.contextClosed = TRUE]

\* The script processor fires only while it is connected in an open context.
ProcessorRuns(st) ==
  st.processorConnected /\ st.sourceConnected /\ ~st.contextClosed

StreamCommit(st, op, calls) ==
  /\ stream' = st
  /\ lastOp' = op
  /\ lastCalls' = calls
  /\ UNCHANGED <<envVars, sessionVars, playerVars, catalogVars>>

\* The guard of line 337, without the flag.
neverBusy(st) == FALSE

\* The guard of line 337.
busy(st) == st.isProcessing

\* processor.onaudioprocess up to its first await (lines 336-341): a
\* callback that finds the flag set does nothing; otherwise it sets the flag
\* and starts converting its buffer.
AudioProcess ==
  /\ stream.phase # "none"
  /\ ProcessorRuns(stream)
  /\ stream.audioChunks + stream.converting < MaxChunks
  /\ LET seen == [stream EXCEPT !.callbackAfterStop = @ \/ stream.recorder = "inactive"]
         st == IF busy(seen) THEN seen
               ELSE [seen EXCEPT !.isProcessing = TRUE, !.converting = @ + 1]
     IN StreamCommit(st, Op("audioProcess", 0,
                            <<IF busy(stream) THEN "skipped" ELSE "processed">>),
                     <<>>)

\* convertToWav resolved (lines 342-347): the segment is buffered; with
\* ChunkThreshold segments the buffer is submitted as one blob (inFlight
\* holds the number of segments of every submission awaiting its answer);
\* otherwise the handler ends (lines 355-357).
ConvertDone ==
  /\ stream.phase # "none"
  /\ stream.converting > 0
  /\ LET pushed == [stream EXCEPT !.converting = @ - 1, !.audioChunks = @ + 1]
         st == IF pushed.audioChunks >= ChunkThreshold
                 THEN [pushed EXCEPT !.inFlight = Append(@, pushed.audioChunks),
                                     !.payload = Blob(pushed.audioChunks)]
                 ELSE [pushed EXCEPT !.isProcessing = FALSE]
     IN StreamCommit(st, Op("convertDone", 0,
                            <<IF pushed.audioChunks >= ChunkThreshold THEN "submitted"
                              ELSE "buffered">>),
                     <<>>)

\* transcribeAudio resolved (lines 347-352, 355-357).
TranscribeDone(text) ==
  /\ stream.inFlight # <<>>
  /\ StreamCommit([stream EXCEPT !.audioChunks = 0, !.inFlight = Tail(@),
                                 !.payload = <<>>, !.isProcessing = FALSE],
                  Op("transcribeDone", 0, text),   \* POST /api/transcribe/{engine}
                  IF trim(text) # <<>>
                    THEN <<Call("onTranscription", toLowerCase(trim(text)))>>
                    ELSE <<>>)

\* The rejection handled without the finally block of lines 355-357.
failureWithoutFinally ==
  /\ stream.inFlight # <<>>
  /\ StreamCommit([stream EXCEPT !.inFlight = Tail(@), !.payload = <<>>],
                  Op("transcribeFailed", 0, <<>>), <<>>)

\* transcribeAudio rejected (a network failure, or a non-2xx answer, lines
\* 291-294): the catch logs, the finally clears the flag (lines 353-357).
\* The chunks are kept.
TranscribeFailed ==
  /\ stream.inFlight # <<>>
  /\ StreamCommit([stream EXCEPT !.inFlight = Tail(@), !.payload = <<>>,
                                 !.isProcessing = FALSE],
                  Op("transcribeFailed", 0, <<>>), <<>>)

\* The session's owner stops the recorder (SpeechRecognitionPolyfill.stop,
\* line 109); the platform queues the stop event.
RecorderStop ==
  /\ stream.recorder = "recording"
  /\ StreamCommit([stream EXCEPT !.recorder = "inactive", !.stopQueued = TRUE,
                                 !.phase = IF @ = "streaming" THEN "stopping" ELSE @],
                  Op("recorderStop", 0, <<>>), <<>>)

\* mediaRecorder.onstop (lines 368-371).
RecorderOnStop ==
  /\ stream.stopQueued
  /\ StreamCommit([cleanup(stream) EXCEPT
                     !.stopQueued = FALSE,
                     !.phase = IF @ = "rejected" THEN @ ELSE "resolved"],
                  Op("recorderOnStop", 0, <<>>), <<>>)

\* mediaRecorder.onerror (lines 373-376); the platform then stops the recorder.
RecorderOnError ==
  /\ stream.recorder = "recording"
  /\ StreamCommit([cleanup(stream) EXCEPT
                     !.recorder = "inactive", !.stopQueued = TRUE,
                     !.phase = "rejected"],
                  Op("recorderOnError", 0, <<>>), <<>>)

InitStream ==
  /\ env = NativeEnv
  /\ support = NoSupport
  /\ mounted = FALSE
  /\ adapters = <<>>
  /\ recogs = <<>>
  /\ annyang = NoAnnyang
  /\ hook = [isListening |-> FALSE, error |-> NoError, currentMode |-> "detecting..."]
  /\ rendered = FirstRender
  /\ renderPending = FALSE
  /\ player = NewPlayer
  /\ stream \in {NewStream(engine) : engine \in Engines}
  /\ catalog = NoCatalog
  /\ carousel = NoCarousel
  /\ exchange = NoExchange
  /\ lastOp = Op("streamAudioToText", 0, <<>>)
  /\ lastCalls = <<>>

NextStream ==
  \/ AudioProcess
  \/ ConvertDone
  \/ \E text \in ResponseTexts : TranscribeDone(text)
  \/ TranscribeFailed
  \/ RecorderStop
  \/ RecorderOnStop
  \/ RecorderOnError

SpecStream == InitStream /\ [][NextStream]_vars

---------------------------------------------------------------------------
(* app/api/movies/route.ts and services/moviesApi.ts *)

TI_FooBar == <<"F", "o", "o", " ", "B", "a", "r">>
TI_fooBar == <<"f", "o", "o", "-", "b", "a", "r">>
TI_FooTabBar == <<"F", "o", "o", "\t", "B", "a", "r">>
TI_FooWideBar == <<"F", "o", "o", " ", " ", "B", "a", "r">>
TI_Up == <<"U", "p">>
ID_fooBar == <<"f", "o", "o", "-", "b", "a", "r">>

\* A title that is not a string (the JSON record has no title).
Undefined == <<"undefined">>

URL(i) == <<"https://cdn.example.com/video/", i>>

NoVideo == <<>>

Movie(title, year, rating, i) ==
  [title |-> title, year |-> year, rating |-> rating, videoURL |-> URL(i)]

\* The records the catalogs below are made of.
Library ==
  << Movie(TI_FooBar, 2020, 7, 1),     Movie(TI_fooBar, 2023, 9, 2),
     Movie(TI_FooTabBar, 1999, 0, 3),  Movie(TI_Up, 2023, 8, 4),
     Movie(TI_FooWideBar, 2001, 5, 5),  Movie(<<"m", "6">>, 2020, 6, 6),
     Movie(<<"m", "7">>, 2010, 9, 7),  Movie(<<"m", "8">>, 2024, 3, 8),
     Movie(<<"m", "9">>, 1999, 4, 9),  Movie(<<"m", "1", "0">>, 2015, 5, 10),
     Movie(<<"m", "1", "1">>, 2024, 2, 11), Movie(<<"m", "1", "2">>, 1998, 8, 12) >>

Pick(indices) == [k \in 1..Len(indices) |-> Library[indices[k]]]

\* Every list of up to three of the first four records (repeats allowed),
\* and lists longer than the carousel shows.
IndexLists ==
  UNION {[1..n -> 1..4] : n \in 0..3}
    \cup {[k \in 1..12 |-> k], [k \in 1..12 |-> 13 - k], [k \in 1..11 |-> k]}

\* What fetchMoviesData yields: a parsed array, a parsed value that is not
\* an array, an array holding a record without a title, or an exception
\* (no remote bucket and no readable movies.json).
Catalogs ==
  {[kind |-> "array", movies |-> Pick(l)] : l \in IndexLists}
    \cup {[kind |-> "array",
           movies |-> <<Library[1], [Library[2] EXCEPT !.title = Undefined]>>],
          [kind |-> "object", movies |-> <<>>],
          [kind |-> "unreadable", movies |-> <<>>]}

\* GET /api/movies. `video` is the request's query parameter (NoVideo when
\* absent); the handler does not read it.
GET(cat, video) ==
  IF cat.kind = "unreadable"
    THEN [status |-> 500, ok |-> FALSE, body |-> [kind |-> "error", movies |-> <<>>]]
    ELSE [status |-> 200, ok |-> TRUE, body |-> cat]

\* What fetch() does to a request: it answers, or it rejects.
Networks == {"up", "down"}

\* fetchMovies: every failure is caught and becomes the empty list.
fetchMovies(net, cat) ==
  IF net = "down" THEN <<>>
  ELSE LET response == GET(cat, NoVideo)
       IN IF ~response.ok THEN <<>>
          ELSE IF response.body.kind # "array" THEN <<>>
          ELSE response.body.movies

Null == [kind |-> "null", movies |-> <<>>]

\* fetchMovieByVideoUrl: null on 404 and on every failure, else the body.
fetchMovieByVideoUrl(net, cat, videoURL) ==
  IF net = "down" THEN Null
  ELSE LET response == GET(cat, videoURL)
       IN IF ~response.ok THEN Null ELSE response.body

IsWhitespace(c) == c \in {" ", "\t", "\n"}

\* String.prototype.replace(/\s+/g, '-'): every run of whitespace becomes
\* one hyphen.
RECURSIVE replaceWhitespace(_)
replaceWhitespace(s) ==
  IF s = <<>> THEN <<>>
  ELSE IF IsWhitespace(Head(s))
    THEN IF Len(s) > 1 /\ IsWhitespace(s[2]) THEN replaceWhitespace(Tail(s))
         ELSE <<"-">> \o replaceWhitespace(Tail(s))
  ELSE <<Head(s)>> \o replaceWhitespace(Tail(s))

\* mapMovieToContent with the title's case kept.
rawTitleId(movie) ==
  [id |-> replaceWhitespace(movie.title), title |-> movie.title,
   videoUrl |-> movie.videoURL, year |-> movie.year, rating |-> movie.rating]

mapMovieToContent(movie) ==
  [id |-> replaceWhitespace(toLowerCase(movie.title)), title |-> movie.title,
   videoUrl |-> movie.videoURL, year |-> movie.year, rating |-> movie.rating]

\* movies.map(mapMovieToContent): a record without a title makes
\* title.toLowerCase() throw a TypeError.
mapAll(movies) ==
  IF \E k \in DOMAIN movies : movies[k].title = Undefined
    THEN [threw |-> TRUE, content |-> <<>>]
    ELSE [threw |-> FALSE, content |-> [k \in DOMAIN movies |-> mapMovieToContent(movies[k])]]

---------------------------------------------------------------------------
(* components/ContentCarousel.tsx *)

\* The comparators handed to Array.prototype.sort. `rating || 0` is the
\* rating itself for the numbers a catalog holds.
oldestFirst(a, b) == a.year - b.year

newestFirst(a, b) == b.year - a.year

bestFirst(a, b) == b.rating - a.rating

compare(key, a, b) == IF key = "year" THEN newestFirst(a, b) ELSE bestFirst(a, b)

\* Array.prototype.sort is stable: x goes after every element that does not
\* sort after it.
RECURSIVE insertSorted(_, _, _)
insertSorted(key, x, sorted) ==
  IF sorted = <<>> THEN <<x>>
  ELSE IF compare(key, Head(sorted), x) <= 0
    THEN <<Head(sorted)>> \o insertSorted(key, x, Tail(sorted))
  ELSE <<x>> \o sorted

RECURSIVE sortInto(_, _, _)
sortInto(key, list, acc) ==
  IF list = <<>> THEN acc
  ELSE sortInto(key, Tail(list), insertSorted(key, Head(list), acc))

sort(key, list) == sortInto(key, list, <<>>)

DisplayCap == 10

\* Array.prototype.slice(0, n).
slice(list, n) == SubSeq(list, 1, IF Len(list) < n THEN Len(list) ELSE n)

\* The queries the home page mounts carousels with ('trending', 'new
\* releases') and the default ''. A free-text query is not among them, so
\* the search branch of lines 67-75 is not reached.
Queries == {"", "trending", "new releases"}

\* Lines 50-76.
filterContent(query, allContent) ==
  IF query = "" THEN allContent
  ELSE CASE query \in {"trending", "popular shows"} ->
              slice(sort("rating", allContent), DisplayCap)
         [] query = "new releases" ->
              slice(sort("year", allContent), DisplayCap)
         [] query = "action movies" -> allContent

RetryLimit == 3

E_NoMovies  == <<"No movies available.">>
E_NoResults == <<"No results found for this category.">>
E_Failed    == <<"Failed to load content: ", "TypeError">>

\* The effect of lines 25-95 up to its await: setIsLoading(true),
\* setError(null), fetchMovies() issued. The closure keeps the retryCount and
\* the query of the render that ran the effect.
fetchContent(c) ==
  [c EXCEPT !.isLoading = TRUE, !.error = NoError,
            !.fetches = @ + 1,
            !.inflight = Append(@, [retryCount |-> c.retryCount,
                                    query |-> c.query])]

\* The mount: useState initial values, then the effect. `fetches` counts the
\* fetchMovies() calls the carousel has issued.
NewCarousel(query) ==
  fetchContent([phase |-> "mounted", query |-> query, items |-> <<>>,
                isLoading |-> TRUE, error |-> NoError, retryCount |-> 0,
                inflight |-> <<>>, timers |-> 0, fetches |-> 0])

\* fetchContent after the await without the retryCount test of line 33: an
\* empty list always schedules another retry.
retryForever(c, movies, rc, query) ==
  IF Len(movies) = 0
    THEN [c EXCEPT !.timers = @ + 1, !.isLoading = FALSE]
    ELSE [c EXCEPT !.items = filterContent(query, mapAll(movies).content),
                   !.isLoading = FALSE]

\* fetchContent after the await (lines 32-91), for the closure values rc and
\* query.
resumeFetchContent(c, movies, rc, query) ==
  LET body ==
        IF Len(movies) = 0
          THEN IF rc < RetryLimit
                 THEN [c EXCEPT !.timers = @ + 1]
                 ELSE [c EXCEPT !.error = E_NoMovies, !.items = <<>>]
        ELSE LET all == mapAll(movies)
             IN IF all.threw THEN [c EXCEPT !.error = E_Failed]
                ELSE LET filteredContent == filterContent(query, all.content)
                     IN IF Len(filteredContent) = 0
                          THEN [c EXCEPT !.error = E_NoResults, !.items = <<>>]
                          ELSE [c EXCEPT !.items = filteredContent]
  IN [body EXCEPT !.isLoading = FALSE]

\* The error panel with its Retry button is rendered (lines 113, 126, 132).
RetryShown(c) == ~c.isLoading /\ c.error # NoError /\ c.retryCount < RetryLimit

RemoveAt(q, i) == SubSeq(q, 1, i - 1) \o SubSeq(q, i + 1, Len(q))

CatalogCommit(c, x, op) ==
  /\ carousel' = c
  /\ exchange' = x
  /\ lastOp' = op
  /\ lastCalls' = <<>>
  /\ UNCHANGED <<catalog, envVars, sessionVars, playerVars, streamVars>>

\* A pending fetchMovies() settles and fetchContent resumes.
FetchSettled(i, net) ==
  /\ carousel.phase = "mounted"
  /\ i \in DOMAIN carousel.inflight
  /\ LET rc == carousel.inflight[i].retryCount
         movies == fetchMovies(net, catalog)
         c == [carousel EXCEPT !.inflight = RemoveAt(@, i)]
     IN CatalogCommit(resumeFetchContent(c, movies, rc, carousel.inflight[i].query),
                      [kind |-> "fetchMovies", video |-> NoVideo, net |-> net,
                       result |-> [kind |-> "array", movies |-> movies]],
                      Op("fetchSettled", 0, <<net, catalog.kind, rc>>))

\* The timer of lines 35-37 fires: setRetryCount, re-render, the effect again.
RetryTimer ==
  /\ carousel.phase = "mounted"
  /\ carousel.timers > 0
  /\ CatalogCommit(fetchContent([carousel EXCEPT !.timers = @ - 1,
                                                 !.retryCount = @ + 1]),
                   exchange, Op("retryTimer", 0, <<>>))

\* The Retry button (line 134).
ClickRetry ==
  /\ carousel.phase = "mounted"
  /\ RetryShown(carousel)
  /\ CatalogCommit(fetchContent([carousel EXCEPT !.retryCount = @ + 1]),
                   exchange, Op("clickRetry", 0, <<>>))

\* The parent renders the carousel with another query: the effect (deps
\* [query, retryCount], no cleanup) runs again while earlier fetches may
\* still be pending.
SetQuery(query) ==
  /\ carousel.phase = "mounted"
  /\ query # carousel.query
  /\ carousel.fetches < MaxFetches
  /\ CatalogCommit(fetchContent([carousel EXCEPT !.query = query]),
                   exchange, Op("setQuery", 0, <<query>>))

\* A client requests /api/movies, with or without ?video=.
GetMovies(video) ==
  CatalogCommit(carousel,
                [kind |-> "GET", video |-> video, net |-> "up",
                 result |-> GET(catalog, video)],
                Op("GET", 0, video))

\* A caller of fetchMovieByVideoUrl.
FetchMovieByVideoUrl(net, videoURL) ==
  CatalogCommit(carousel,
                [kind |-> "fetchMovieByVideoUrl", video |-> videoURL, net |-> net,
                 result |-> fetchMovieByVideoUrl(net, catalog, videoURL)],
                Op("fetchMovieByVideoUrl", 0, videoURL))

\* The video URLs requests ask for: three that records carry, one that none does.
VideoURLs == {URL(1), URL(2), URL(4), URL(99)}

InitCatalog ==
  /\ env = NativeEnv
  /\ support = NoSupport
  /\ mounted = FALSE
  /\ adapters = <<>>
  /\ recogs = <<>>
  /\ annyang = NoAnnyang
  /\ hook = [isListening |-> FALSE, error |-> NoError, currentMode |-> "detecting..."]
  /\ rendered = FirstRender
  /\ renderPending = FALSE
  /\ player = NewPlayer
  /\ stream = NoStream
  /\ catalog \in Catalogs
  /\ carousel \in {NewCarousel(query) : query \in Queries}
  /\ exchange = NoExchange
  /\ lastOp = Op("mountCarousel", 0, <<>>)
  /\ lastCalls = <<>>

NextCatalog ==
  \/ \E i \in DOMAIN carousel.inflight, net \in Networks : FetchSettled(i, net)
  \/ RetryTimer
  \/ ClickRetry
  \/ \E video \in VideoURLs \cup {NoVideo} : GetMovies(video)
  \/ \E net \in Networks, video \in VideoURLs : FetchMovieByVideoUrl(net, video)

SpecCatalog == InitCatalog /\ [][NextCatalog]_vars

\* app/watch/[id]/page.tsx. movies.find (line 24): the first record whose
\* generated id equals `id`; a record without a title makes
\* m.title.toLowerCase() throw.
RECURSIVE findMovie(_, _, _)
findMovie(movies, id, k) ==
  IF k > Len(movies) THEN [kind |-> "notFound"]
  ELSE IF movies[k].title = Undefined THEN [kind |-> "threw"]
  ELSE IF replaceWhitespace(toLowerCase(movies[k].title)) = id
    THEN [kind |-> "movie", movie |-> movies[k]]
  ELSE findMovie(movies, id, k + 1)

\* getMovieById (lines 7-32): it throws when the fetch rejects, when the
\* response is not ok and when the body is no array; notFound() when no
\* record matches.
getMovieById(net, cat, id) ==
  IF net = "down" THEN [kind |-> "threw"]
  ELSE LET response == GET(cat, NoVideo)
       IN IF ~response.ok THEN [kind |-> "threw"]
          ELSE IF response.body.kind # "array" THEN [kind |-> "threw"]
          ELSE findMovie(response.body.movies, id, 1)

\* The watch page is opened with an id typed into the address bar.
WatchPage(net, id) ==
  CatalogCommit(carousel,
                [kind |-> "getMovieById", id |-> id, net |-> net,
                 result |-> getMovieById(net, catalog, id)],
                Op("watchPage", 0, id))

\* The card of the catalog's k-th movie is followed: ContentCard links to
\* /watch/${id} with the id mapMovieToContent gave the movie.
OpenCard(net, k) ==
  /\ catalog.kind = "array"
  /\ k \in DOMAIN catalog.movies
  /\ ~mapAll(catalog.movies).threw
  /\ LET id == mapMovieToContent(catalog.movies[k]).id
     IN CatalogCommit(carousel,
                      [kind |-> "getMovieById", id |-> id, net |-> net,
                       result |-> getMovieById(net, catalog, id)],
                      Op("openCard", 0, <<k>>))

\* Ids typed by hand: one that catalogs hold and one that none holds.
TypedIds == {ID_fooBar, <<"n", "o", "n", "e">>}

NextWatch ==
  \/ \E net \in Networks, k \in DOMAIN Library : OpenCard(net, k)
  \/ \E net \in Networks, id \in TypedIds : WatchPage(net, id)

SpecWatch == InitCatalog /\ [][NextWatch]_vars

\* The carousel under changes of its query.
NextQuery ==
  \/ \E i \in DOMAIN carousel.inflight, net \in Networks : FetchSettled(i, net)
  \/ RetryTimer
  \/ ClickRetry
  \/ \E query \in Queries : SetQuery(query)

\* The catalogs the query changes are explored with: an empty one, one
\* whose order differs between the queries, one whose mapping throws and an
\* unreadable one.
QueryCatalogs ==
  {c \in Catalogs :
     \/ c.kind = "unreadable"
     \/ c.kind = "array" /\ c.movies \in {<<>>, Pick(<<1, 2>>),
                                          <<Library[1], [Library[2] EXCEPT !.title = Undefined]>>}}

InitQuery == InitCatalog /\ catalog \in QueryCatalogs

SpecQuery == InitQuery /\ [][NextQuery]_vars

---------------------------------------------------------------------------
(* Properties *)

Modes == {"native", "server", "polyfill"}

\* The secure-origin test as the pages state it: https, or a loopback name.
SecureOrigin(e) == e.protocol = "https:" \/ e.hostname \in {"localhost", "127.0.0.1"}

NativePresent(e) == e.SpeechRecognition \/ e.webkitSpeechRecognition

MediaPresent(e) == e.mediaDevices /\ e.getUserMedia /\ e.MediaRecorder

\* C1: for every capability combination and user agent, detectBrowserSupport
\* returns (it does not throw) and its recommendedMode is one of native,
\* server, polyfill.
C1_DetectorAlwaysReturnsAMode ==
  lastOp.name = "detectBrowserSupport" =>
    /\ support.outcome = "returned"
    /\ support.recommendedMode \in Modes

\* C1 witness: the detector has run where no branch of the chain assigns a mode.
C1_Witness ==
  /\ lastOp.name = "detectBrowserSupport"
  /\ ~NativePresent(env) /\ ~SecureOrigin(env)
  /\ support.recommendedMode = "polyfill"

\* C2: native whenever the native constructor is present; otherwise server
\* exactly when media recording is present and the origin is secure;
\* otherwise polyfill, with the degraded message exactly when the origin is
\* not secure.
C2_PriorityTable ==
  lastOp.name = "detectBrowserSupport" =>
    /\ NativePresent(env) => support.recommendedMode = "native"
    /\ ~NativePresent(env) =>
         (support.recommendedMode = "server" <=> (MediaPresent(env) /\ SecureOrigin(env)))
    /\ (~NativePresent(env) /\ ~(MediaPresent(env) /\ SecureOrigin(env))) =>
         /\ support.recommendedMode = "polyfill"
         /\ support.supportMessage[2] = "limited" <=> ~SecureOrigin(env)

\* C2 witness: native and media recording are both present on a secure
\* origin, and native wins.
C2_Witness ==
  /\ lastOp.name = "detectBrowserSupport"
  /\ NativePresent(env) /\ MediaPresent(env) /\ SecureOrigin(env)
  /\ support.recommendedMode = "native"

\* The adapter's name for a mode the detector recommends.
AdapterModeFor(recommended) == IF recommended = "polyfill" THEN "annyang" ELSE recommended

\* C3 (as claimed): every adapter's mode is the one the detector recommends
\* for the same environment.
C3_AdapterModeIsDetectorMode ==
  \A a \in DOMAIN adapters :
    adapters[a].fallbackMode = AdapterModeFor(detectBrowserSupport(env).recommendedMode)

\* C4: a start() on a listening adapter, and a startListening() whose
\* isListening is true, change nothing and invoke no callback.
C4_StartWhileListeningIsNoOp ==
  [][(/\ lastOp'.name = "startListening"
      /\ (adapters[lastOp'.adapter].isListening \/ rendered.isListening))
     => /\ adapters' = adapters
        /\ recogs' = recogs
        /\ annyang' = annyang
        /\ hook' = hook
        /\ lastCalls' = <<>>]_vars

\* C4 witness: start() has just returned at once on a listening adapter.
C4_Witness ==
  /\ lastOp.name = "startListening"
  /\ lastOp.arg[1] = "noop"
  /\ adapters[lastOp.adapter].isListening

\* C5 (as claimed): a listening server-mode adapter holds a media recorder.
C5_ServerListeningHasCapture ==
  \A a \in DOMAIN adapters :
    (adapters[a].fallbackMode = "server" /\ adapters[a].isListening)
      => adapters[a].mediaRecorder # 0

\* C6 (as claimed): once a stopped streaming session has signalled completion
\* the processor and source are disconnected, the context closed and the
\* microphone released, and no audio callback ran after the stop.
C6_StopReleasesGraphAndMicrophone ==
  /\ stream.phase = "resolved" =>
       /\ ~stream.processorConnected
       /\ ~stream.sourceConnected
       /\ stream.contextClosed
       /\ ~stream.micLive
  /\ stream.phase # "none" => ~stream.callbackAfterStop

\* C7 (as claimed): once a native error has been forwarded the adapter is
\* not listening.
C7_NotListeningAfterNativeError ==
  lastOp.name = "nativeError" => ~adapters[lastOp.adapter].isListening

\* C8 (as claimed): a re-render of the mounted player neither ends a session
\* nor constructs another adapter.
C8_RenderKeepsTheSession ==
  lastOp.name = "render" =>
    /\ Len(adapters) = 1
    /\ \A i \in DOMAIN lastCalls : lastCalls[i].cb # "onEnd"

StartSettlingOps == {"startListening", "scriptLoaded", "scriptError"}

\* C9: a start() that fails reports through onError (once, with a message),
\* does not invoke onStart, leaves the adapter not listening and does not
\* throw to its caller.
C9_FailedStartReportsError ==
  (lastOp.name \in StartSettlingOps /\ lastOp.arg[2] # "none") =>
    /\ lastOp.arg[1] = "failed"
    /\ Len(lastCalls) = 1
    /\ lastCalls[1].cb = "onError"
    /\ lastCalls[1].arg = <<"Failed to start speech recognition: ", lastOp.arg[2]>>
    /\ ~adapters[lastOp.adapter].isListening
    /\ mounted => hook.error = lastCalls[1].arg /\ ~hook.isListening

\* C9 witness: the script loaded but left no polyfill object.
C9_Witness ==
  /\ lastOp.name = "scriptLoaded"
  /\ lastOp.arg = <<"failed", "no-annyang">>

\* The action the claim names for a command: the first phrase, in table
\* order, that the command contains.
FirstPhraseAction(cmd) ==
  IF includes(cmd, P_play) THEN <<"play">>
  ELSE IF includes(cmd, P_pause) THEN <<"pause">>
  ELSE IF includes(cmd, P_skipIntro) THEN <<"skipIntro">>
  ELSE IF includes(cmd, P_subtitlesOn) THEN <<"subtitlesOn">>
  ELSE IF includes(cmd, P_subtitlesOff) THEN <<"subtitlesOff">>
  ELSE <<>>

\* C10: each dispatch runs at most one action, that of the first command in
\* table order whose phrase the transcript contains; "please play the movie"
\* runs play once and nothing else.
C10_FirstMatchWins ==
  \A i \in DOMAIN lastCalls :
    (lastCalls[i].cb = "handleCommand" /\ mounted) =>
      /\ Len(lastCalls[i].acts) <= 1
      /\ lastCalls[i].acts = FirstPhraseAction(lastCalls[i].arg)
      /\ lastCalls[i].arg = T_pleasePlay =>
           (lastCalls[i].acts = <<"play">> /\ player.isPlaying)

\* C10 witness: a transcript containing both "pause" and "play" was dispatched.
C10_Witness ==
  /\ mounted
  /\ lastOp.name = "nativeResult"
  /\ lastOp.arg = T_pausePlay
  /\ lastCalls[2].acts = <<"play">>

\* A command that contains none of the five phrases.
NoCommandPhrase(cmd) ==
  /\ ~includes(cmd, P_play) /\ ~includes(cmd, P_pause) /\ ~includes(cmd, P_skipIntro)
  /\ ~includes(cmd, P_subtitlesOn) /\ ~includes(cmd, P_subtitlesOff)

\* C11: a recognition result whose transcript matches no command, and any
\* result delivered while no media element is attached, leaves the player
\* (playing state, position, subtitle flag, the element itself) unchanged
\* and runs no command action.
C11_NoMatchChangesNothing ==
  [][(/\ lastOp'.name = "nativeResult"
      /\ (NoCommandPhrase(toLowerCase(lastOp'.arg)) \/ ~mounted))
     => /\ player' = player
        /\ \A i \in DOMAIN lastCalls' : lastCalls'[i].acts = <<>>]_vars

\* C11 witness: "hello" was dispatched to a player that is playing, past
\* the start, with subtitles on.
C11_Witness ==
  /\ mounted
  /\ lastOp.name = "nativeResult"
  /\ lastOp.arg = T_hello
  /\ player.isPlaying /\ ~player.paused
  /\ player.currentTime = 90
  /\ player.showSubtitles

\* A command whose first match is skipIntro.
SkipOnly(cmd) ==
  includes(cmd, P_skipIntro) /\ ~includes(cmd, P_play) /\ ~includes(cmd, P_pause)

\* C12 (as claimed): a skip-intro command moves the position of the attached
\* media element forward by exactly 90 seconds and changes neither the
\* playing state nor the subtitle flag.
C12_SkipAddsExactly90 ==
  [][(lastOp'.name = "nativeResult" /\ mounted /\ SkipOnly(toLowerCase(lastOp'.arg)))
     => /\ player'.currentTime = player.currentTime + 90
        /\ player'.isPlaying = player.isPlaying
        /\ player'.showSubtitles = player.showSubtitles]_vars

\* C12 (amended): a skip-intro command moves the position of the attached
\* media element forward by 90 seconds, or to the end of the media when
\* fewer than 90 seconds remain, and changes neither the playing state nor
\* the subtitle flag.
C12_SkipAdds90OrReachesEnd ==
  [][(lastOp'.name = "nativeResult" /\ mounted /\ SkipOnly(toLowerCase(lastOp'.arg)))
     => /\ player.currentTime + 90 <= MediaDuration
              => player'.currentTime = player.currentTime + 90
        /\ player.currentTime + 90 > MediaDuration
              => player'.currentTime = MediaDuration
        /\ player'.isPlaying = player.isPlaying
        /\ player'.showSubtitles = player.showSubtitles
        /\ player'.paused = player.paused]_vars

\* C12 witness: "skip intro now" has been dispatched twice from the start.
C12_Witness ==
  /\ mounted
  /\ lastOp.name = "nativeResult"
  /\ lastOp.arg = T_skipIntroNow
  /\ lastCalls[2].acts = <<"skipIntro">>
  /\ player.currentTime = 180

\* C13 (as claimed): each advertised phrase runs its advertised action.
C13_AdvertisedPhrasesWork ==
  (mounted /\ lastOp.name = "nativeResult") =>
    /\ lastOp.arg = T_Play => lastCalls[2].acts = <<"play">>
    /\ lastOp.arg = T_pause => lastCalls[2].acts = <<"pause">>
    /\ lastOp.arg = T_skipIntro => lastCalls[2].acts = <<"skipIntro">>
    /\ lastOp.arg = T_turnOnSubtitles => player.showSubtitles
    /\ lastOp.arg = T_turnOffSubtitles => ~player.showSubtitles

\* C14 (as claimed): with no play or pause event pending, isPlaying is true
\* exactly when the media element is playing.
C14_IsPlayingTracksTheElement ==
  (mounted /\ player.events = <<>>) => (player.isPlaying <=> ~player.paused)

\* C15 (as claimed): once the automatic retries are exhausted the carousel
\* shows 'No movies available.' together with a Retry button.
C15_ExhaustedRetriesOfferRetry ==
  (carousel.phase = "mounted" /\ ~carousel.isLoading /\ carousel.error = E_NoMovies)
    => RetryShown(carousel)

\* The request behind the last settled fetch failed: no answer, a non-2xx
\* status, or a body that is not an array.
FailedRequest ==
  /\ lastOp.name = "fetchSettled"
  /\ (lastOp.arg[1] = "down" \/ lastOp.arg[2] \in {"unreadable", "object"})

\* C16 (as claimed): a failed movie-list request shows an error at once and
\* schedules no automatic retry.
C16_FailureShowsErrorWithoutRetry ==
  FailedRequest => (carousel.error # NoError /\ carousel.timers = 0)

CountYear(list, y) == Cardinality({k \in DOMAIN list : list[k].year = y})

\* The last settled fetch delivered movies and they were displayed.
Displayed ==
  /\ carousel.phase = "mounted"
  /\ lastOp.name = "fetchSettled"
  /\ exchange.result.movies # <<>>
  /\ \A k \in DOMAIN exchange.result.movies : exchange.result.movies[k].title # Undefined

\* C17: for 'new releases' the displayed items are fetched movies, at most
\* 10 (all of them when there are fewer), in non-increasing order of year,
\* and a movie is left out only if no displayed movie is older than it;
\* years [2020, 2023, 1999] are displayed as [2023, 2020, 1999].
C17_NewReleasesNewestFirstCappedAt10 ==
  (Displayed /\ carousel.query = "new releases") =>
    LET shown == carousel.items
        fetched == exchange.result.movies
    IN /\ Len(shown) <= 10
       /\ Len(shown) = (IF Len(fetched) < 10 THEN Len(fetched) ELSE 10)
       /\ \A j \in DOMAIN shown : \E k \in DOMAIN fetched :
            shown[j].title = fetched[k].title /\ shown[j].year = fetched[k].year
       /\ \A k \in DOMAIN fetched :
            CountYear(shown, fetched[k].year) <= CountYear(fetched, fetched[k].year)
       /\ \A j \in 1..(Len(shown) - 1) : shown[j].year >= shown[j + 1].year
       /\ \A k \in DOMAIN fetched :
            CountYear(shown, fetched[k].year) < CountYear(fetched, fetched[k].year)
              => \A j \in DOMAIN shown : shown[j].year >= fetched[k].year
       /\ [k \in DOMAIN fetched |-> fetched[k].year] = <<2020, 2023, 1999>>
            => [j \in DOMAIN shown |-> shown[j].year] = <<2023, 2020, 1999>>

\* C17 witness: twelve movies were fetched for 'new releases', ten are shown.
C17_Witness ==
  /\ Displayed /\ carousel.query = "new releases"
  /\ Len(exchange.result.movies) = 12
  /\ Len(carousel.items) = 10

\* C18: mapping never fails for movies whose titles are strings; the id
\* depends on the title alone, holds no whitespace and no capital letter,
\* and is 'foo-bar' for 'Foo Bar', for 'foo-bar', for 'Foo<tab>Bar' and for
\* 'Foo  Bar'.
C18_IdIsLowercasedHyphenatedTitle ==
  Displayed =>
    /\ carousel.error = NoError
    /\ carousel.items # <<>>
    /\ \A j \in DOMAIN carousel.items :
         LET a == carousel.items[j]
         IN /\ a.title \in {TI_FooBar, TI_fooBar, TI_FooTabBar, TI_FooWideBar}
                 => a.id = ID_fooBar
            /\ Len(a.id) <= Len(a.title)
            /\ \A n \in DOMAIN a.id :
                 ~IsWhitespace(a.id[n]) /\ a.id[n] \notin {"F", "B", "U"}
            /\ \A k \in DOMAIN carousel.items :
                 carousel.items[k].title = a.title => carousel.items[k].id = a.id

\* C18 witness: 'Foo Bar' and 'foo-bar' are displayed with the same id.
C18_Witness ==
  /\ Displayed
  /\ \E j, k \in DOMAIN carousel.items :
       /\ carousel.items[j].title = TI_FooBar
       /\ carousel.items[k].title = TI_fooBar
       /\ carousel.items[j].id = carousel.items[k].id

\* C19 (as claimed): with a video parameter the answer is the one record
\* with that video URL, or 404 when there is none; without it, the array.
C19_VideoParameterNarrows ==
  (lastOp.name = "GET" /\ catalog.kind = "array") =>
    LET r == exchange.result
        matches == {k \in DOMAIN catalog.movies :
                      catalog.movies[k].videoURL = exchange.video}
    IN IF exchange.video = NoVideo THEN r.status = 200 /\ r.body = catalog
       ELSE IF matches = {} THEN r.status = 404
       ELSE r.status = 200 /\ \E k \in matches : r.body = catalog.movies[k]

\* C20: at most one transcription submission is in flight, at most one
\* callback is converting or submitting, and a callback that fires while the
\* flag is set buffers nothing and submits nothing.
C20_OneSubmissionInFlight ==
  /\ [](stream.phase # "none" =>
          /\ Len(stream.inFlight) <= 1
          /\ stream.converting + Len(stream.inFlight) <= 1
          /\ (stream.converting + Len(stream.inFlight) = 1) <=> stream.isProcessing)
  /\ [][(lastOp'.name = "audioProcess" /\ stream.isProcessing)
          => /\ stream'.audioChunks = stream.audioChunks
             /\ stream'.converting = stream.converting
             /\ stream'.inFlight = stream.inFlight]_vars

\* C20 witness: a callback fired, and was skipped, while a submission of two
\* segments was awaiting its answer.
C20_Witness ==
  /\ lastOp.name = "audioProcess"
  /\ lastOp.arg = <<"skipped">>
  /\ stream.inFlight = <<2>>

\* C21 (as claimed): an audio callback that fires while a submission is
\* still awaiting its answer is processed (buffered), not skipped.
C21_PendingRequestDoesNotBlock ==
  (lastOp.name = "audioProcess" /\ stream.inFlight # <<>>)
    => lastOp.arg = <<"processed">>

\* C22 (as claimed): the buffer never holds more than two segments and every
\* submission carries exactly two.
C22_BufferHoldsAtMostTwo ==
  stream.phase # "none" =>
    /\ stream.audioChunks <= 2
    /\ \A i \in DOMAIN stream.inFlight : stream.inFlight[i] = 2

RECURSIVE SampleBytes(_)
SampleBytes(parts) ==
  IF parts = <<>> THEN 0
  ELSE (IF Head(parts).kind = "samples" THEN Head(parts).bytes ELSE 0)
       + SampleBytes(Tail(parts))

\* C24 (as claimed): a submitted payload is one 44-byte PCM / mono / 16 kHz /
\* 16-bit header followed only by sample data, whose size fields describe
\* all the sample bytes of the payload.
C24_PayloadIsOneWavContainer ==
  (stream.phase # "none" /\ stream.payload # <<>>) =>
    LET header == stream.payload[1]
    IN /\ header.kind = "header"
       /\ header.bytes = 44
       /\ header.format = 1 /\ header.channels = 1
       /\ header.sampleRate = 16000 /\ header.bitsPerSample = 16
       /\ \A i \in 2..Len(stream.payload) : stream.payload[i].kind = "samples"
       /\ header.dataSize = SampleBytes(stream.payload)
       /\ header.riffSize = SampleBytes(stream.payload) + 36

\* C25 (as claimed): a native result event forwards the transcript of the
\* first alternative of the last result with that alternative's confidence,
\* 1.0 standing in only when the alternative has no score.
C25_ForwardsLastResultWithItsScore ==
  lastOp.name = "nativeResult" =>
    LET alternative == lastOp.event[Len(lastOp.event)][1]
    IN /\ lastCalls # <<>>
       /\ lastCalls[1].cb = "onResult"
       /\ lastCalls[1].arg =
            << alternative.transcript,
               IF alternative.confidence = NoScore THEN 100
               ELSE alternative.confidence >>

\* C26 (as claimed): once stop() has returned on a listening session, a
\* result event of its backend reaches no callback: every forwarded native
\* result belongs to an adapter that is listening, and annyang forwards
\* results only while some adapter is listening.
C26_NoResultForwardedAfterStop ==
  /\ (lastOp.name = "nativeResult" /\ lastCalls # <<>>)
       => adapters[lastOp.adapter].isListening
  /\ (lastOp.name = "annyangResult" /\ lastCalls # <<>>)
       => \E a \in DOMAIN adapters : adapters[a].isListening

\* C27 (as claimed): after the component's teardown no recognition backend
\* is active: annyang is not listening and no native session is started.
C27_NoBackendActiveAfterTeardown ==
  ~mounted =>
    /\ ~annyang.listening
    /\ \A r \in DOMAIN recogs : recogs[r].state # "started"

\* C28: the polyfill script element is appended at most once, and a step
\* taken while window.annyang or a script element for it is present appends
\* none.
C28_ScriptAppendedAtMostOnce ==
  /\ [](annyang.appended <= 1)
  /\ [][(annyang.present \/ annyang.script # "absent")
          => annyang'.appended = annyang.appended]_vars

\* C28 witness: a second start() was made while the script element of the
\* first one was still loading.
C28_Witness ==
  /\ lastOp.name = "startListening"
  /\ lastOp.arg[1] = "failed"
  /\ annyang.script = "loading"
  /\ annyang.appended = 1

\* C30 (as claimed): a start() issued while an earlier start() of the same
\* adapter is still awaiting the script is absorbed: it starts no backend,
\* registers no callbacks and invokes neither onStart nor onError.
C30_SecondStartInTheGapIsAbsorbed ==
  (/\ lastOp.name = "startListening"
   /\ annyang.pending = lastOp.adapter
   /\ lastOp.arg[1] # "suspended")
    => /\ lastCalls = <<>>
       /\ annyang.resultCallbacks = 0
       /\ ~annyang.listening

\* C29: a render that follows a change of the subtitle flag sets the mode of
\* the track labelled 'English' to 'showing' when the flag is true and to
\* 'hidden' otherwise, and leaves every other track as it was; with no such
\* track the render completes and no track changes.
C29_FlagChangeSetsEnglishTrackMode ==
  [][(lastOp'.name = "render" /\ player.showSubtitles # rendered.showSubtitles)
       => /\ DOMAIN player'.tracks = DOMAIN player.tracks
          /\ \A i \in DOMAIN player.tracks :
               player'.tracks[i] =
                 IF player.tracks[i].label = "English"
                   THEN Track("English", IF player.showSubtitles THEN "showing"
                                         ELSE "hidden")
                   ELSE player.tracks[i]
          /\ rendered'.showSubtitles = player.showSubtitles]_vars

\* C29 witness: the flag became true and the render after it made the
\* English track show, next to a track with another label.
C29_Witness ==
  /\ lastOp.name = "render"
  /\ player.showSubtitles
  /\ rendered.showSubtitles
  /\ player.tracks = <<Track("English", "showing"), Track("Spanish", "disabled")>>

\* C31 (as claimed): a native session that stop() has already reported as
\* ended is not reported a second time when its end event arrives.
C31_EndReportedOnce ==
  [][\A r \in DOMAIN recogs :
       (recogs[r].state = "stopping" /\ recogs'[r].state = "ended")
         => \A i \in DOMAIN lastCalls' : lastCalls'[i].cb # "onEnd"]_vars

IsOnResult(call) == call.cb = "onResult"

\* C32 (as claimed): with every start() and stop() made on one adapter, a
\* phrase that annyang reports is forwarded to onResult exactly once.
C32_PhraseForwardedOnce ==
  (lastOp.name = "annyangResult" /\ lastOp.arg # <<>> /\ Cur = 1)
    => Len(SelectSeq(lastCalls, IsOnResult)) = 1

IsStateCallback(call) == call.cb \in {"onStart", "onEnd", "onError"}

\* C33 (as claimed): once a callback of the hook's current adapter (onStart,
\* onEnd or onError) has been processed, the hook's isListening equals that
\* adapter's isCurrentlyListening().
C33_HookFlagFollowsAdapter ==
  (/\ mounted
   /\ lastOp.adapter = Cur
   /\ SelectSeq(lastCalls, IsStateCallback) # <<>>)
    => hook.isListening = adapters[Cur].isListening

\* C34: in the hook's state isListening implies that error is null, after
\* every adapter callback and every startListening / stopListening call.
C34_ListeningImpliesNoError ==
  hook.isListening => hook.error = NoError

\* C34 witness: a start that failed (recognition.start() threw, an error was
\* shown) was followed by a start that succeeded.
C34_Witness ==
  /\ lastOp.name = "startListening"
  /\ lastOp.arg[1] = "started"
  /\ hook.isListening
  /\ \E r \in DOMAIN recogs : recogs[r].state = "unstarted"

\* C35 (as claimed): the answer to a transcription request that arrives
\* after the streaming promise has resolved delivers nothing to
\* onTranscription.
C35_NoTranscriptAfterResolve ==
  (lastOp.name = "transcribeDone" /\ stream.phase = "resolved")
    => lastCalls = <<>>

\* What the carousel shows for a query when the catalog's movies load.
ItemsFor(query) == filterContent(query, mapAll(catalog.movies).content)

\* C36 (as claimed): once every fetch has settled and no retry is scheduled,
\* items shown without an error are the ones computed for the current query.
C36_LatestQueryWins ==
  (/\ carousel.phase = "mounted"
   /\ carousel.inflight = <<>>
   /\ carousel.timers = 0
   /\ carousel.error = NoError
   /\ carousel.items # <<>>)
    => carousel.items = ItemsFor(carousel.query)

\* C37: the carousel issues at most 4 fetches (the first and 3 retries); a
\* fetch that returns an empty list after the third retry leaves the error
\* 'No movies available.', no items and isLoading = false with nothing
\* pending; and the carousel stays in that state.
C37_RetriesAreBounded ==
  /\ [](carousel.phase = "mounted" => carousel.fetches <= RetryLimit + 1)
  /\ [][(/\ lastOp'.name = "fetchSettled"
         /\ exchange'.result.movies = <<>>
         /\ lastOp'.arg[3] = RetryLimit)
          => /\ carousel'.error = E_NoMovies
             /\ carousel'.items = <<>>
             /\ ~carousel'.isLoading
             /\ carousel'.timers = 0
             /\ carousel'.inflight = <<>>
             /\ carousel'.fetches = RetryLimit + 1]_vars
  /\ [][(carousel.phase = "mounted" /\ carousel.error = E_NoMovies)
          => carousel' = carousel]_vars

\* C37 witness: four fetches returned nothing and the carousel rests with
\* the error.
C37_Witness ==
  /\ lastOp.name = "fetchSettled"
  /\ carousel.fetches = 4
  /\ carousel.retryCount = 3
  /\ carousel.error = E_NoMovies
  /\ carousel.items = <<>>
  /\ ~carousel.isLoading
  /\ carousel.timers = 0
  /\ carousel.inflight = <<>>

\* C38 (as claimed): following the card of the k-th movie of the catalog
\* opens the watch page of that movie.
C38_CardOpensItsMovie ==
  (lastOp.name = "openCard" /\ exchange.net = "up")
    => exchange.result = [kind |-> "movie", movie |-> catalog.movies[lastOp.arg[1]]]

=============================================================================
